---- MODULE Spec2Model ----
(***************************************************************************)
(* Substack translator: the translation pipeline (translator.js), the      *)
(* express handlers that call it (server.js), the reply parser, and the    *)
(* renderers of the server and of the widget.                              *)
(*                                                                         *)
(* Text is a sequence of one-character strings, so that split, trim,       *)
(* startsWith and join are computed the way the JavaScript computes them.  *)
(***************************************************************************)
EXTENDS Integers, Sequences, FiniteSets, TLC

VARIABLES
    translationCache,   \* Map postId -> { title, subtitle, content }
    reqs,               \* the HTTP requests received so far, in arrival order
    pText,              \* reply parser: the reply text being parsed
    pSrc,               \* reply parser: the source title and subtitle
    pLine,              \* reply parser: index of the next line of the for loop
    pScan,              \* reply parser: the loop's local variables
    pResult,            \* reply parser: the result object, once built
    tbInput,            \* prompt assembly: the title, subtitle and content given
    textToTranslate,    \* prompt assembly: the text block, once built
    rParts,             \* renderers: the pieces of the text given to them
    rHtml,              \* renderers: what each has returned for the text
    body_html,          \* round trip: the post's HTML, as a sequence of blocks
    contentText,        \* round trip: the text fetchPost extracts from it
    roundHtml,          \* round trip: what the renderer returns for the text
    pageLen,            \* widget: length of the host content element's text
    attempts,           \* widget: runs of waitForContent so far
    wPc,                \* widget: "polling", "timedout", "nomount" or "mounted"
    console,            \* widget: the diagnostics emitted
    subtitleEl,         \* widget: the page has an h3.subtitle element
    original,           \* widget: the innerHTML captured by init
    currentLang,        \* widget: "en" or "es"
    active,             \* widget: the buttons that carry the class "active"
    loading,            \* widget: the toggle carries the class "loading"
    sessionCache,       \* widget: sessionCache[postId], or NoEntry
    innerHTML,          \* widget: innerHTML of the title, subtitle and content
    fading,             \* widget: the elements carry the class "fading"
    timers,             \* widget: the data of the swapContent timers pending
    outstanding,        \* widget: translate requests sent and not yet settled
    clicks              \* widget: clicks on the toggle buttons so far

serverVars == <<translationCache, reqs>>
parserVars == <<pText, pSrc, pLine, pScan, pResult>>
promptVars == <<tbInput, textToTranslate>>
renderVars == <<rParts, rHtml>>
roundVars == <<body_html, contentText, roundHtml>>
widgetVars == <<pageLen, attempts, wPc, console, subtitleEl, original, currentLang,
                active, loading, sessionCache, innerHTML, fading, timers,
                outstanding, clicks>>
restVars == <<roundVars, widgetVars>>
vars == <<translationCache, reqs,
          pText, pSrc, pLine, pScan, pResult,
          tbInput, textToTranslate, rParts, rHtml,
          body_html, contentText, roundHtml,
          pageLen, attempts, wPc, console, subtitleEl, original, currentLang,
          active, loading, sessionCache, innerHTML, fading, timers,
          outstanding, clicks>>

----------------------------------------------------------------------------
(* Bounds *)

MaxReqs  == 3      \* HTTP requests received in one run
MaxLines == 4      \* lines of an upstream reply given to the parser
MaxParts == 3      \* pieces of a text given to the renderers
MaxBlocks == 2     \* block elements of a post's HTML
MaxClicks == 3     \* clicks on the widget's toggle buttons in one page view

----------------------------------------------------------------------------
(* Text *)

NL == "\n"
SP == " "
Empty == << >>

IsSpace(c) == c = SP \/ c = NL

StartsWith(s, p) == Len(s) >= Len(p) /\ SubSeq(s, 1, Len(p)) = p

Drop(s, n) == SubSeq(s, n + 1, Len(s))

RECURSIVE TrimStart(_)
TrimStart(s) ==
    IF s # Empty /\ IsSpace(Head(s)) THEN TrimStart(Tail(s)) ELSE s

RECURSIVE TrimEnd(_)
TrimEnd(s) ==
    IF s # Empty /\ IsSpace(s[Len(s)]) THEN TrimEnd(SubSeq(s, 1, Len(s) - 1)) ELSE s

Trim(s) == TrimEnd(TrimStart(s))

RECURSIVE SplitFrom(_, _, _, _, _)
SplitFrom(s, sep, i, cur, acc) ==
    IF i > Len(s) THEN Append(acc, cur)
    ELSE IF s[i] = sep THEN SplitFrom(s, sep, i + 1, Empty, Append(acc, cur))
    ELSE SplitFrom(s, sep, i + 1, Append(cur, s[i]), acc)

\* String.prototype.split("\n"): "" gives [""].
SplitLines(s) == SplitFrom(s, NL, 1, Empty, << >>)

RECURSIVE Join(_, _)
Join(parts, sep) ==
    IF parts = << >> THEN Empty
    ELSE IF Len(parts) = 1 THEN parts[1]
    ELSE parts[1] \o sep \o Join(Tail(parts), sep)

----------------------------------------------------------------------------
(* translatePost: parsing the reply back into title / subtitle / content *)

HashSp  == <<"#", SP>>
Hash3Sp == <<"#", "#", "#", SP>>

ScanInit ==
    [translatedTitle |-> Empty, translatedSubtitle |-> Empty,
     contentLines |-> << >>, pastHeaders |-> FALSE]

\* ScanBranch taking a `# ` line as the title after the body has begun.
ScanBranchNotSticky(st, line) ==
    IF StartsWith(line, HashSp) /\ st.translatedTitle = Empty
    THEN "title"
    ELSE IF ~st.pastHeaders /\ StartsWith(line, Hash3Sp) /\ st.translatedSubtitle = Empty
    THEN "subtitle"
    ELSE IF Trim(line) = Empty /\ ~st.pastHeaders /\ Len(st.contentLines) = 0
    THEN "skip"
    ELSE "body"

\* Which branch of the loop body a line takes.
ScanBranch(st, line) ==
    IF ~st.pastHeaders /\ StartsWith(line, HashSp) /\ st.translatedTitle = Empty
    THEN "title"
    ELSE IF ~st.pastHeaders /\ StartsWith(line, Hash3Sp) /\ st.translatedSubtitle = Empty
    THEN "subtitle"
    ELSE IF Trim(line) = Empty /\ ~st.pastHeaders /\ Len(st.contentLines) = 0
    THEN "skip"
    ELSE "body"

\* ScanLine with the subtitle stripped by /^## / instead of /^### /.
ScanLineShortStrip(st, line) ==
    CASE ScanBranch(st, line) = "title" ->
            [st EXCEPT !.translatedTitle = Drop(line, 2)]
      [] ScanBranch(st, line) = "subtitle" ->
            [st EXCEPT !.translatedSubtitle = Drop(line, 3)]
      [] ScanBranch(st, line) = "skip" -> st
      [] OTHER ->
            [st EXCEPT !.pastHeaders = TRUE,
                       !.contentLines = Append(st.contentLines, line)]

\* One iteration of `for (const line of lines)`.
ScanLine(st, line) ==
    CASE ScanBranch(st, line) = "title" ->
            [st EXCEPT !.translatedTitle = Drop(line, 2)]
      [] ScanBranch(st, line) = "subtitle" ->
            [st EXCEPT !.translatedSubtitle = Drop(line, 4)]
      [] ScanBranch(st, line) = "skip" -> st
      [] OTHER ->
            [st EXCEPT !.pastHeaders = TRUE,
                       !.contentLines = Append(st.contentLines, line)]

RECURSIVE ScanLines(_, _)
ScanLines(st, lines) ==
    IF lines = << >> THEN st ELSE ScanLines(ScanLine(st, Head(lines)), Tail(lines))

\* a || b on strings: the empty string is falsy.
OrElse(a, b) == IF a # Empty THEN a ELSE b

\* BuildResult without the fallback to the source title and subtitle.
BuildResultNoFallback(st, title, subtitle) ==
    [title    |-> st.translatedTitle,
     subtitle |-> st.translatedSubtitle,
     content  |-> Trim(Join(st.contentLines, <<NL>>))]

BuildResult(st, title, subtitle) ==
    [title    |-> OrElse(st.translatedTitle, title),
     subtitle |-> OrElse(st.translatedSubtitle, subtitle),
     content  |-> Trim(Join(st.contentLines, <<NL>>))]

ParseReply(text, title, subtitle) ==
    BuildResult(ScanLines(ScanInit, SplitLines(text)), title, subtitle)

----------------------------------------------------------------------------
(* formatContentToHtml and inlineFormat (server.js) *)

Star == "*"

Contains(s, sub) ==
    \E i \in 1..(Len(s) - Len(sub) + 1) : SubSeq(s, i, i + Len(sub) - 1) = sub

At(s, i, sub) == i + Len(sub) - 1 <= Len(s) /\ SubSeq(s, i, i + Len(sub) - 1) = sub

RECURSIVE SkipNL(_, _)
SkipNL(s, i) == IF i <= Len(s) /\ s[i] = NL THEN SkipNL(s, i + 1) ELSE i

\* String.prototype.split(/\n\n+/)
RECURSIVE SplitParasFrom(_, _, _, _)
SplitParasFrom(s, i, cur, acc) ==
    IF i > Len(s) THEN Append(acc, cur)
    ELSE IF At(s, i, <<NL, NL>>)
    THEN SplitParasFrom(s, SkipNL(s, i), Empty, Append(acc, cur))
    ELSE SplitParasFrom(s, i + 1, Append(cur, s[i]), acc)

SplitParas(s) == SplitParasFrom(s, 1, Empty, << >>)

\* text.replace(/\n/g, "<br>")
RECURSIVE BrLines(_)
BrLines(s) ==
    IF s = Empty THEN Empty
    ELSE (IF Head(s) = NL THEN <<"<", "b", "r", ">">> ELSE <<Head(s)>>)
         \o BrLines(Tail(s))

\* The end of the shortest match of \*\*(.+?)\*\* that starts at i: the index of
\* the closing "**", or 0 when there is no match at i.
BoldClose(s, i) ==
    IF ~At(s, i, <<Star, Star>>) THEN 0
    ELSE LET ends == { j \in (i + 3)..(Len(s) - 1) :
                         /\ At(s, j, <<Star, Star>>)
                         /\ \A k \in (i + 2)..(j - 1) : s[k] # NL }
         IN  IF ends = {} THEN 0
             ELSE CHOOSE j \in ends : \A k \in ends : j <= k

\* text.replace(/\*\*(.+?)\*\*/g, "<strong>$1</strong>")
RECURSIVE BoldFrom(_, _)
BoldFrom(s, i) ==
    IF i > Len(s) THEN Empty
    ELSE IF BoldClose(s, i) # 0
    THEN <<"<", "s", "t", "r", "o", "n", "g", ">">>
         \o SubSeq(s, i + 2, BoldClose(s, i) - 1)
         \o <<"<", "/", "s", "t", "r", "o", "n", "g", ">">>
         \o BoldFrom(s, BoldClose(s, i) + 2)
    ELSE <<s[i]>> \o BoldFrom(s, i + 1)

\* The first index >= i holding c, or 0.
FirstOf(s, i, c) ==
    IF \E j \in i..Len(s) : s[j] = c
    THEN CHOOSE j \in i..Len(s) : s[j] = c /\ \A k \in i..(j - 1) : s[k] # c
    ELSE 0

\* A match of \[([^\]]+)\]\(([^)]+)\) that starts at i: <<index of "]", index of ")">>,
\* or <<0, 0>>.
LinkAt(s, i) ==
    IF i > Len(s) \/ s[i] # "[" THEN <<0, 0>>
    ELSE LET rb == FirstOf(s, i + 1, "]")
         IN  IF rb = 0 \/ rb = i + 1 \/ ~At(s, rb + 1, <<"(">>) THEN <<0, 0>>
             ELSE LET rp == FirstOf(s, rb + 2, ")")
                  IN  IF rp = 0 \/ rp = rb + 2 THEN <<0, 0>> ELSE <<rb, rp>>

\* text.replace(/\[([^\]]+)\]\(([^)]+)\)/g, '<a href="$2">$1</a>')
RECURSIVE LinkFrom(_, _)
LinkFrom(s, i) ==
    IF i > Len(s) THEN Empty
    ELSE IF LinkAt(s, i)[1] # 0
    THEN <<"<", "a", SP, "h", "r", "e", "f", "=", "\"">>
         \o SubSeq(s, LinkAt(s, i)[1] + 2, LinkAt(s, i)[2] - 1)
         \o <<"\"", ">">>
         \o SubSeq(s, i + 1, LinkAt(s, i)[1] - 1)
         \o <<"<", "/", "a", ">">>
         \o LinkFrom(s, LinkAt(s, i)[2] + 1)
    ELSE <<s[i]>> \o LinkFrom(s, i + 1)

\* inlineFormat without its second replace, the one for links.
inlineFormatNoLinks(text) == BoldFrom(text, 1)

inlineFormat(text) == LinkFrom(BoldFrom(text, 1), 1)

\* The callback of .map in formatContentToHtml.
ServerBlock(para) ==
    LET html == Trim(para)
    IN  IF html = Empty THEN Empty
        ELSE IF StartsWith(html, Hash3Sp)
        THEN <<"<", "h", "3", ">">> \o inlineFormat(Drop(html, 4))
             \o <<"<", "/", "h", "3", ">">>
        ELSE IF StartsWith(html, <<"#", "#", SP>>)
        THEN <<"<", "h", "2", ">">> \o inlineFormat(Drop(html, 3))
             \o <<"<", "/", "h", "2", ">">>
        ELSE <<"<", "p", ">">> \o BrLines(inlineFormat(html)) \o <<"<", "/", "p", ">">>

\* formatContentToHtml looking for `<p>` only.
formatContentToHtmlOnlyP(text) ==
    IF text = Empty THEN Empty
    ELSE IF Contains(text, <<"<", "p", ">">>)
    THEN text
    ELSE Join([k \in 1..Len(SplitParas(text)) |-> ServerBlock(SplitParas(text)[k])],
              <<NL>>)

formatContentToHtml(text) ==
    IF text = Empty THEN Empty
    ELSE IF Contains(text, <<"<", "p", ">">>) \/ Contains(text, <<"<", "d", "i", "v", ">">>)
    THEN text
    ELSE Join([k \in 1..Len(SplitParas(text)) |-> ServerBlock(SplitParas(text)[k])],
              <<NL>>)

----------------------------------------------------------------------------
(* formatTranslatedContent and processInline of the widget (widget.js, the  *)
(* one that waits for the page's content), and of the widget with the      *)
(* italic rule                                                              *)

processInline(text) == LinkFrom(BoldFrom(text, 1), 1)

\* The callback of .map in formatTranslatedContent.
WidgetBlock(para) ==
    LET html == Trim(para)
    IN  IF html = Empty THEN Empty
        ELSE IF StartsWith(html, <<"#", "#", SP>>)
        THEN <<"<", "h", "2", ">">> \o processInline(Drop(html, 3))
             \o <<"<", "/", "h", "2", ">">>
        ELSE <<"<", "p", ">">> \o BrLines(processInline(html)) \o <<"<", "/", "p", ">">>

formatTranslatedContent(text) ==
    IF text = Empty THEN Empty
    ELSE IF Contains(text, <<"<", "p", ">">>) \/ Contains(text, <<"<", "d", "i", "v", ">">>)
    THEN text
    ELSE Join([k \in 1..Len(SplitParas(text)) |-> WidgetBlock(SplitParas(text)[k])],
              <<NL>>)

\* (?<!\*)\*(?!\*) matches at i: a star with no star before it and none after.
LoneStar(s, i) ==
    /\ i >= 1 /\ i <= Len(s) /\ s[i] = Star
    /\ (i > 1 => s[i - 1] # Star)
    /\ (i < Len(s) => s[i + 1] # Star)

\* The end of the shortest match of (?<!\*)\*(?!\*)(.+?)(?<!\*)\*(?!\*) that
\* starts at i: the index of the closing star, or 0 when there is no match at i.
ItalicClose(s, i) ==
    IF ~LoneStar(s, i) THEN 0
    ELSE LET ends == { j \in (i + 2)..Len(s) :
                         /\ LoneStar(s, j)
                         /\ \A k \in (i + 1)..(j - 1) : s[k] # NL }
         IN  IF ends = {} THEN 0
             ELSE CHOOSE j \in ends : \A k \in ends : j <= k

\* text.replace(/(?<!\*)\*(?!\*)(.+?)(?<!\*)\*(?!\*)/g, "<em>$1</em>")
RECURSIVE ItalicFrom(_, _)
ItalicFrom(s, i) ==
    IF i > Len(s) THEN Empty
    ELSE IF ItalicClose(s, i) # 0
    THEN <<"<", "e", "m", ">">>
         \o SubSeq(s, i + 1, ItalicClose(s, i) - 1)
         \o <<"<", "/", "e", "m", ">">>
         \o ItalicFrom(s, ItalicClose(s, i) + 1)
    ELSE <<s[i]>> \o ItalicFrom(s, i + 1)

processInlineItalic(text) == LinkFrom(ItalicFrom(BoldFrom(text, 1), 1), 1)

WidgetBlockItalic(para) ==
    LET html == Trim(para)
    IN  IF html = Empty THEN Empty
        ELSE IF StartsWith(html, <<"#", "#", SP>>)
        THEN <<"<", "h", "2", ">">> \o processInlineItalic(Drop(html, 3))
             \o <<"<", "/", "h", "2", ">">>
        ELSE <<"<", "p", ">">> \o BrLines(processInlineItalic(html))
             \o <<"<", "/", "p", ">">>

formatTranslatedContentItalic(text) ==
    IF text = Empty THEN Empty
    ELSE IF Contains(text, <<"<", "p", ">">>) \/ Contains(text, <<"<", "d", "i", "v", ">">>)
    THEN text
    ELSE Join([k \in 1..Len(SplitParas(text)) |-> WidgetBlockItalic(SplitParas(text)[k])],
              <<NL>>)

----------------------------------------------------------------------------
(* translatePost (translator.js) and the express handlers (server.js)      *)
(*                                                                         *)
(* A handler runs to its next await in one step.  When an awaited promise  *)
(* settles, the code after it runs to the handler's end in one step: the   *)
(* continuations are microtasks, which run before the callback of any      *)
(* other request.  So the only reference to a result object that outlives  *)
(* a step is the cache's, and the cache holds the objects by value.        *)

Ids  == {"/p/a", "/p/b"}
NoId == ""                      \* a request body without postId

NoEntry == [none |-> TRUE]

Has(cache, id) == cache[id] # NoEntry         \* translationCache.has(postId)

isCached(id) == Has(translationCache, id)

\* BuildPrompt pushing the subtitle line before the title line.
BuildPromptSubtitleFirst(title, subtitle, content) ==
    Join((IF subtitle # Empty THEN << Hash3Sp \o subtitle >> ELSE << >>)
         \o (IF title # Empty THEN << HashSp \o title >> ELSE << >>)
         \o (IF content # Empty THEN << content >> ELSE << >>),
         <<NL, NL>>)

\* textToTranslate: the parts that are not empty, joined by a blank line.
BuildPrompt(title, subtitle, content) ==
    Join((IF title # Empty THEN << HashSp \o title >> ELSE << >>)
         \o (IF subtitle # Empty THEN << Hash3Sp \o subtitle >> ELSE << >>)
         \o (IF content # Empty THEN << content >> ELSE << >>),
         <<NL, NL>>)

Titles    == { Empty, <<"t">> }
Subtitles == { <<"s">> }
Contents  == { Empty, <<"b">> }

\* The reply texts client.messages.create resolves with.
ReplyTexts ==
    { Empty,
      <<"#", SP, "X", NL, "#", "#", "#", SP, "Y", NL, NL, "C">> }

\* ParseReply and formatContentToHtml on the texts the server meets.
ParsedReply ==
    [text \in ReplyTexts, title \in Titles, subtitle \in Subtitles |->
        ParseReply(text, title, subtitle)]

RenderedContent ==
    [c \in { ParsedReply[x].content : x \in DOMAIN ParsedReply } |->
        formatContentToHtml(c)]

NoResp == [status |-> 0]

\* pc: "fetch" (awaiting fetchPost), "upstream" (awaiting client.messages.create),
\* "done" (answered).  hit: translationCache.has(postId) was true in translatePost.
\* called: translatePost went on to client.messages.create, with the text prompt.
\* replied, translatedText: the reply text of line 40, once there is one.
\* after: the requests for the same postId that had been answered when this one
\* arrived (a history of the run, no variable of the program).
NewReq(kind, id, title, subtitle, content) ==
    [kind |-> kind, postId |-> id, title |-> title, subtitle |-> subtitle,
     content |-> content, pc |-> "new", hit |-> FALSE, called |-> FALSE,
     prompt |-> Empty, replied |-> FALSE, translatedText |-> Empty,
     after |-> { i \in 1..Len(reqs) : reqs[i].pc = "done" /\ reqs[i].postId = id },
     resp |-> NoResp]

\* res.json({ postId, cached: isCached(postId), ...result })
TranslateResponse(r, cache) ==
    [status |-> 200, postId |-> r.postId, cached |-> Has(cache, r.postId)]
    @@ cache[r.postId]

\* The catch blocks: res.status(500).
Error500(r) ==
    [status |-> 500, error |->
        IF r.kind = "translate" THEN "Translation failed"
        ELSE IF r.kind = "pre" THEN "Pre-translation failed"
        ELSE "Failed to load translated post. Please try again."]

Reject400(r, msg) ==
    [r EXCEPT !.pc = "done", !.resp = [status |-> 400, error |-> msg]]

\* /read/:slug: translated.contentHtml = formatContentToHtml(translated.content)
\* assigns to the object translatePost returned, the one the cache holds.
WithHtml(obj) ==
    [title |-> obj.title, subtitle |-> obj.subtitle, content |-> obj.content,
     contentHtml |-> RenderedContent[obj.content]]

\* The handler's code after `await translatePost(...)`, which returned the
\* object cache[r.postId]: the request and the cache it leaves.
AfterTranslate(r, cache) ==
    CASE r.kind = "translate" ->
            [req |-> [r EXCEPT !.pc = "done", !.resp = TranslateResponse(r, cache)],
             cache |-> cache]
      [] r.kind = "pre" ->
            [req |-> [r EXCEPT !.pc = "done",
                               !.resp = [status |-> 200, postId |-> r.postId,
                                         preStatus |-> "cached"]],
             cache |-> cache]
      [] OTHER ->
            [req |-> [r EXCEPT !.pc = "done",
                               !.resp = [status |-> 200, page |-> WithHtml(cache[r.postId])]],
             cache |-> [cache EXCEPT ![r.postId] = WithHtml(@)]]

\* translatePost up to its first await: on a hit it returns the cached object
\* and the handler goes on; on a miss the upstream call is made.
CallTranslatePost(r) ==
    IF Has(translationCache, r.postId)
    THEN AfterTranslate([r EXCEPT !.hit = TRUE], translationCache)
    ELSE [req |-> [r EXCEPT !.pc = "upstream", !.called = TRUE,
                            !.prompt = BuildPrompt(r.title, r.subtitle, r.content)],
          cache |-> translationCache]

Answered(r) == [req |-> r, cache |-> translationCache]

\* TranslateHandler without the title/content check.
TranslateHandlerNoFieldCheck(r) ==
    IF r.postId = NoId THEN Answered(Reject400(r, "postId is required"))
    ELSE CallTranslatePost(r)

\* app.post("/api/translate") up to its first await.
TranslateHandler(r) ==
    IF r.postId = NoId THEN Answered(Reject400(r, "postId is required"))
    ELSE IF r.content = Empty /\ r.title = Empty
    THEN Answered(Reject400(r, "At least title or content is required"))
    ELSE CallTranslatePost(r)

\* PreTranslateHandler answering without waiting for translatePost.
PreTranslateHandlerNoAwait(r) ==
    IF r.postId = NoId THEN Answered(Reject400(r, "postId is required"))
    ELSE IF isCached(r.postId)
    THEN Answered([r EXCEPT !.pc = "done", !.hit = TRUE,
                            !.resp = [status |-> 200, postId |-> r.postId,
                                      preStatus |-> "already_cached"]])
    ELSE Answered([r EXCEPT !.pc = "done",
                            !.resp = [status |-> 200, postId |-> r.postId,
                                      preStatus |-> "cached"]])

\* app.post("/api/pre-translate") up to its first await.
PreTranslateHandler(r) ==
    IF r.postId = NoId THEN Answered(Reject400(r, "postId is required"))
    ELSE IF isCached(r.postId)
    THEN Answered([r EXCEPT !.pc = "done", !.hit = TRUE,
                            !.resp = [status |-> 200, postId |-> r.postId,
                                      preStatus |-> "already_cached"]])
    ELSE CallTranslatePost(r)

\* The JSON bodies of the POST requests: every combination of an empty or
\* non-empty title and content for each postId, and a body without postId.
Bodies ==
    { [postId |-> id, title |-> t, subtitle |-> st, content |-> c] :
        id \in Ids, t \in Titles, st \in Subtitles, c \in Contents }
    \cup { [postId |-> NoId, title |-> <<"t">>, subtitle |-> <<"s">>, content |-> <<"b">>] }

ReceiveTranslate ==
    /\ Len(reqs) < MaxReqs
    /\ \E b \in Bodies :
         LET out == TranslateHandler(
                        NewReq("translate", b.postId, b.title, b.subtitle, b.content))
         IN  /\ reqs' = Append(reqs, out.req)
             /\ translationCache' = out.cache
    /\ UNCHANGED <<parserVars, promptVars, renderVars, restVars>>

ReceivePreTranslate ==
    /\ Len(reqs) < MaxReqs
    /\ \E b \in Bodies :
         LET out == PreTranslateHandler(
                        NewReq("pre", b.postId, b.title, b.subtitle, b.content))
         IN  /\ reqs' = Append(reqs, out.req)
             /\ translationCache' = out.cache
    /\ UNCHANGED <<parserVars, promptVars, renderVars, restVars>>

Slugs == {"a", "b"}

SlugId(slug) == IF slug = "a" THEN "/p/a" ELSE "/p/b"      \* `/p/${slug}`

\* app.get("/read/:slug") up to `await fetchPost(slug)`.
ReceiveRead ==
    /\ Len(reqs) < MaxReqs
    /\ \E slug \in Slugs :
         reqs' = Append(reqs, [NewReq("read", SlugId(slug), Empty, Empty, Empty)
                                  EXCEPT !.pc = "fetch"])
    /\ UNCHANGED translationCache
    /\ UNCHANGED <<parserVars, promptVars, renderVars, restVars>>

\* What fetchPost can do: reject, or resolve with a post.
FetchOutcomes ==
    { [kind |-> "reject"] }
    \cup { [kind |-> "post", title |-> <<"t">>, subtitle |-> <<"s">>, contentText |-> c]
           : c \in Contents }

\* /read/:slug from the settling of `await fetchPost(slug)` to its next await.
ReadHandler(r, o) ==
    IF o.kind = "reject"
    THEN Answered([r EXCEPT !.pc = "done", !.resp = Error500(r)])
    ELSE IF o.contentText = Empty
    THEN Answered([r EXCEPT !.pc = "done", !.resp = [status |-> 404]])
    ELSE CallTranslatePost([r EXCEPT !.title = o.title, !.subtitle = o.subtitle,
                                     !.content = o.contentText])

FetchSettles ==
    /\ \E i \in 1..Len(reqs), o \in FetchOutcomes :
        /\ reqs[i].pc = "fetch"
        /\ LET out == ReadHandler(reqs[i], o)
           IN  /\ reqs' = [reqs EXCEPT ![i] = out.req]
               /\ translationCache' = out.cache
    /\ UNCHANGED <<parserVars, promptVars, renderVars, restVars>>

\* The result object of lines 62-66.
NewObject(r, text) == ParsedReply[text, r.title, r.subtitle]

\* translationCache.set(postId, result)
CacheSet(cache, id, obj) == [cache EXCEPT ![id] = obj]

\* `await client.messages.create(...)` resolves with a reply text: translatePost
\* parses it, caches and returns the result, and the handler runs to its end.
UpstreamReplies ==
    /\ \E i \in 1..Len(reqs), text \in ReplyTexts :
        /\ reqs[i].pc = "upstream"
        /\ LET out == AfterTranslate(
                          [reqs[i] EXCEPT !.replied = TRUE, !.translatedText = text],
                          CacheSet(translationCache, reqs[i].postId,
                                   NewObject(reqs[i], text)))
           IN  /\ translationCache' = out.cache
               /\ reqs' = [reqs EXCEPT ![i] = out.req]
    /\ UNCHANGED <<parserVars, promptVars, renderVars, restVars>>

\* UpstreamFails caching the untranslated fields before it fails.
UpstreamFailsCachesSource ==
    /\ \E i \in 1..Len(reqs) :
        /\ reqs[i].pc = "upstream"
        /\ reqs' = [reqs EXCEPT ![i].pc = "done", ![i].resp = Error500(reqs[i])]
        /\ translationCache' =
               CacheSet(translationCache, reqs[i].postId,
                        [title |-> reqs[i].title, subtitle |-> reqs[i].subtitle,
                         content |-> reqs[i].content])
    /\ UNCHANGED <<parserVars, promptVars, renderVars, restVars>>

\* UpstreamFails dropping the postId's cache entry when it fails.
UpstreamFailsEvicts ==
    /\ \E i \in 1..Len(reqs) :
        /\ reqs[i].pc = "upstream"
        /\ reqs' = [reqs EXCEPT ![i].pc = "done", ![i].resp = Error500(reqs[i])]
        /\ translationCache' = CacheSet(translationCache, reqs[i].postId, NoEntry)
    /\ UNCHANGED <<parserVars, promptVars, renderVars, restVars>>

\* It rejects, or resolves without a text block (line 40 or line 43 throws):
\* translatePost rejects and the handler's catch block answers.
UpstreamFails ==
    /\ \E i \in 1..Len(reqs) :
        /\ reqs[i].pc = "upstream"
        /\ reqs' = [reqs EXCEPT ![i].pc = "done", ![i].resp = Error500(reqs[i])]
    /\ UNCHANGED translationCache
    /\ UNCHANGED <<parserVars, promptVars, renderVars, restVars>>

\* The upstream calls made so far, and those in flight, for one postId.
UpstreamCalls(id) ==
    Cardinality({ i \in 1..Len(reqs) : reqs[i].called /\ reqs[i].postId = id })

InFlight(id) ==
    Cardinality({ i \in 1..Len(reqs) : reqs[i].pc = "upstream" /\ reqs[i].postId = id })

----------------------------------------------------------------------------
(* The reply parser on its own: every reply of up to MaxLines lines *)

LineSet ==
    { Empty,
      <<SP>>,
      <<"B">>,
      <<"#", SP, "T">>,
      <<"#", SP>>,
      <<"#", "#", "#", SP, "S">>,
      <<"#", "#", "#", SP>> }

ReplyLines == UNION { [1..n -> LineSet] : n \in 1..MaxLines }

SrcSet == { [title |-> <<"t">>, subtitle |-> <<"s">>],
            [title |-> <<"t">>, subtitle |-> Empty],
            [title |-> Empty, subtitle |-> <<"s">>] }

NoResult == [none |-> TRUE]

pLines == SplitLines(pText)

ParserIdle ==
    /\ pText = Empty
    /\ pSrc = [title |-> Empty, subtitle |-> Empty]
    /\ pLine = 0
    /\ pScan = ScanInit
    /\ pResult = NoResult

PromptIdle ==
    /\ tbInput = [title |-> Empty, subtitle |-> Empty, content |-> Empty]
    /\ textToTranslate = NoResult

RenderIdle ==
    /\ rParts = << >>
    /\ rHtml = [k \in {} |-> Empty]

RoundIdle ==
    /\ body_html = << >>
    /\ contentText = NoResult
    /\ roundHtml = NoResult

NoFields == [title |-> Empty, subtitle |-> Empty, content |-> Empty]

\* The page before the widget's script has run.
WidgetIdle ==
    /\ pageLen = 0
    /\ attempts = 0
    /\ wPc = "polling"
    /\ console = {}
    /\ subtitleEl = FALSE
    /\ original = NoFields
    /\ currentLang = "en"
    /\ active = {}
    /\ loading = FALSE
    /\ sessionCache = NoEntry
    /\ innerHTML = NoFields
    /\ fading = FALSE
    /\ timers = << >>
    /\ outstanding = << >>
    /\ clicks = 0

RestIdle == RoundIdle /\ WidgetIdle

ServerInit ==
    /\ translationCache = [id \in Ids |-> NoEntry]
    /\ reqs = << >>

InitParse ==
    /\ ServerInit
    /\ PromptIdle
    /\ RenderIdle
    /\ RestIdle
    /\ pText \in { Join(ls, <<NL>>) : ls \in ReplyLines }
    /\ pSrc \in SrcSet
    /\ pLine = 1
    /\ pScan = ScanInit
    /\ pResult = NoResult

ParseLine ==
    /\ pLine >= 1
    /\ pLine <= Len(pLines)
    /\ pScan' = ScanLine(pScan, pLines[pLine])
    /\ pLine' = pLine + 1
    /\ UNCHANGED <<pText, pSrc, pResult>>
    /\ UNCHANGED <<serverVars, promptVars, renderVars, restVars>>

ParseFinish ==
    /\ pLine = Len(pLines) + 1
    /\ pResult = NoResult
    /\ pResult' = BuildResult(pScan, pSrc.title, pSrc.subtitle)
    /\ UNCHANGED <<pText, pSrc, pLine, pScan>>
    /\ UNCHANGED <<serverVars, promptVars, renderVars, restVars>>

NextParse == ParseLine \/ ParseFinish

SpecParse == InitParse /\ [][NextParse]_vars

----------------------------------------------------------------------------
(* The text block translatePost builds, for every shape of its arguments *)

PromptTitles    == { Empty, <<"t">>, <<"t", SP, "u">>, <<"#", SP, "t">> }
PromptSubtitles == { Empty, <<"s">>, <<"s", SP, "v">>, <<"#", "#", "#", SP, "s">> }
PromptContents  == { Empty, <<"b">>, <<"b", NL, NL, "c">>, <<"#", SP, "b", NL, "c">> }

InitPrompt ==
    /\ ServerInit
    /\ ParserIdle
    /\ RenderIdle
    /\ RestIdle
    /\ tbInput \in [title : PromptTitles, subtitle : PromptSubtitles,
                     content : PromptContents]
    /\ textToTranslate = NoResult

\* Lines 21-26 of translatePost.
BuildsPrompt ==
    /\ textToTranslate = NoResult
    /\ textToTranslate' =
           [text |-> BuildPrompt(tbInput.title, tbInput.subtitle, tbInput.content)]
    /\ UNCHANGED tbInput
    /\ UNCHANGED <<serverVars, parserVars, renderVars, restVars>>

NextPrompt == BuildsPrompt

SpecPrompt == InitPrompt /\ [][NextPrompt]_vars

----------------------------------------------------------------------------
(* The renderers, each on every text of up to MaxParts pieces *)

BoldA   == <<Star, Star, "a", Star, Star>>
ItalicA == <<Star, "a", Star>>
LinkLU  == <<"[", "l", "]", "(", "u", ")">>

PieceSet ==
    { <<"a">>, <<SP>>, <<NL>>, <<NL, NL>>, <<NL, NL, SP, NL, NL>>,
      Hash3Sp, <<"#", "#", SP>>,
      <<Star, Star>>, <<Star>>, BoldA, ItalicA, LinkLU,
      <<"<", "p", ">">>, <<"<", "d", "i", "v", ">">> }

RenderInputs == UNION { [1..n -> PieceSet] : n \in 0..MaxParts }

rText == Join(rParts, Empty)

Renderers == {"server", "widget", "widgetItalic"}

Rendered(k) == k \in DOMAIN rHtml

InitRender ==
    /\ ServerInit
    /\ ParserIdle
    /\ PromptIdle
    /\ RestIdle
    /\ rParts \in RenderInputs
    /\ rHtml = [k \in {} |-> Empty]

Returns(k, html) ==
    /\ ~Rendered(k)
    /\ rHtml' = [j \in DOMAIN rHtml \cup {k} |-> IF j = k THEN html ELSE rHtml[j]]
    /\ UNCHANGED rParts
    /\ UNCHANGED <<serverVars, parserVars, promptVars, restVars>>

RenderServer == Returns("server", formatContentToHtml(rText))

RenderWidget == Returns("widget", formatTranslatedContent(rText))

RenderWidgetItalic == Returns("widgetItalic", formatTranslatedContentItalic(rText))

NextRender == RenderServer \/ RenderWidget \/ RenderWidgetItalic

SpecRender == InitRender /\ [][NextRender]_vars

----------------------------------------------------------------------------
(* fetchPost's text extraction (reader.js) followed by the server renderer, *)
(* on posts whose HTML is paragraphs of text, bold and links, and headings  *)

\* The inline nodes of a block: a text node, <strong>a</strong>, <a href="u">l</a>.
InlineNodes ==
    { [tag |-> "text", text |-> <<"a">>, href |-> Empty],
      [tag |-> "strong", text |-> <<"a">>, href |-> Empty],
      [tag |-> "a", text |-> <<"l">>, href |-> <<"u">>] }

\* <p>...</p> of one or two inline nodes, <h2>a</h2>, <h3>a</h3>.
BlockNodes ==
    { [tag |-> "p", kids |-> k] : k \in UNION { [1..n -> InlineNodes] : n \in 1..2 } }
    \cup { [tag |-> t, kids |-> << [tag |-> "text", text |-> <<"a">>, href |-> Empty] >>]
             : t \in {"h2", "h3"} }

Posts == UNION { [1..n -> BlockNodes] : n \in 1..MaxBlocks }

\* cheerio's .text(): the text nodes under a node, in document order.
RECURSIVE NodesText(_)
NodesText(nodes) ==
    IF nodes = << >> THEN Empty
    ELSE (IF "kids" \in DOMAIN Head(nodes) THEN NodesText(Head(nodes).kids)
          ELSE Head(nodes).text)
         \o NodesText(Tail(nodes))

\* cheerio.load(contentHtml) followed by $.text().trim()
ExtractText(html) == Trim(NodesText(html))

InitRound ==
    /\ ServerInit
    /\ ParserIdle
    /\ PromptIdle
    /\ RenderIdle
    /\ WidgetIdle
    /\ body_html \in Posts
    /\ contentText = NoResult
    /\ roundHtml = NoResult

\* fetchPost, lines 134-139.
FetchExtracts ==
    /\ contentText = NoResult
    /\ contentText' = [text |-> ExtractText(body_html)]
    /\ UNCHANGED <<body_html, roundHtml>>
    /\ UNCHANGED <<serverVars, parserVars, promptVars, renderVars, widgetVars>>

\* formatContentToHtml on the extracted text.
RendersExtract ==
    /\ contentText # NoResult
    /\ roundHtml = NoResult
    /\ roundHtml' = [html |-> formatContentToHtml(contentText.text)]
    /\ UNCHANGED <<body_html, contentText>>
    /\ UNCHANGED <<serverVars, parserVars, promptVars, renderVars, widgetVars>>

NextRound == FetchExtracts \/ RendersExtract

SpecRound == InitRound /\ [][NextRound]_vars

----------------------------------------------------------------------------
(* The widget (widget.js): discovery of the page's content, then the toggle *)
(*                                                                          *)
(* One step is one task of the page's event loop: a timer callback, a click *)
(* handler or the settling of the fetch, each with the promise callbacks    *)
(* that follow it at once.  The swapContent timers all wait 300 ms, so they *)
(* fire in the order they were set.                                         *)

maxAttempts == 50
MinTextLength == 50         \* contentEl.textContent.trim().length > 50

\* The widget's state as one record, and the state a step leaves.
WState ==
    [pageLen |-> pageLen, attempts |-> attempts, wPc |-> wPc, console |-> console,
     subtitleEl |-> subtitleEl, original |-> original, currentLang |-> currentLang,
     active |-> active, loading |-> loading, sessionCache |-> sessionCache,
     innerHTML |-> innerHTML, fading |-> fading, timers |-> timers,
     outstanding |-> outstanding, clicks |-> clicks]

Becomes(w) ==
    /\ pageLen' = w.pageLen
    /\ attempts' = w.attempts
    /\ wPc' = w.wPc
    /\ console' = w.console
    /\ subtitleEl' = w.subtitleEl
    /\ original' = w.original
    /\ currentLang' = w.currentLang
    /\ active' = w.active
    /\ loading' = w.loading
    /\ sessionCache' = w.sessionCache
    /\ innerHTML' = w.innerHTML
    /\ fading' = w.fading
    /\ timers' = w.timers
    /\ outstanding' = w.outstanding
    /\ clicks' = w.clicks
    /\ UNCHANGED <<serverVars, parserVars, promptVars, renderVars, roundVars>>

\* init(), the page having an element to insert the mount point before, or not.
init(w, insertTarget) ==
    IF ~insertTarget
    THEN [w EXCEPT !.wPc = "nomount", !.console = @ \cup {"No insert target found."}]
    ELSE [w EXCEPT !.wPc = "mounted",
                   !.original = w.innerHTML,
                   !.currentLang = "en",
                   !.active = {"en"},
                   !.console = @ \cup {"Initialized"}]

\* waitForContent scheduling another run after the run that reaches maxAttempts.
waitForContentOneMore(w, insertTarget) ==
    LET w1 == [w EXCEPT !.attempts = @ + 1]
    IN  IF w1.pageLen > MinTextLength THEN init(w1, insertTarget)
        ELSE IF w1.attempts <= maxAttempts THEN w1
        ELSE [w1 EXCEPT !.wPc = "timedout",
                        !.console = @ \cup {"Timed out waiting for post content."}]

\* waitForContent()
waitForContent(w, insertTarget) ==
    LET w1 == [w EXCEPT !.attempts = @ + 1]
    IN  IF w1.pageLen > MinTextLength THEN init(w1, insertTarget)
        ELSE IF w1.attempts < maxAttempts THEN w1
        ELSE [w1 EXCEPT !.wPc = "timedout",
                        !.console = @ \cup {"Timed out waiting for post content."}]

\* swapContent(data), up to setTimeout.
swapContent(w, data) ==
    [w EXCEPT !.fading = TRUE, !.timers = Append(@, data)]

\* The callback of swapContent's setTimeout leaving "fading" on the elements.
SwapNowKeepsFading(w, data) ==
    [w EXCEPT !.innerHTML =
                 [title    |-> IF data.title # Empty THEN data.title ELSE @.title,
                  subtitle |-> IF w.subtitleEl /\ data.subtitle # Empty
                               THEN data.subtitle ELSE @.subtitle,
                  content  |-> IF data.content # Empty THEN data.content ELSE @.content]]

\* The callback of swapContent's setTimeout.
SwapNow(w, data) ==
    [w EXCEPT !.innerHTML =
                 [title    |-> IF data.title # Empty THEN data.title ELSE @.title,
                  subtitle |-> IF w.subtitleEl /\ data.subtitle # Empty
                               THEN data.subtitle ELSE @.subtitle,
                  content  |-> IF data.content # Empty THEN data.content ELSE @.content],
              !.fading = FALSE]

\* What the server can answer: translated fields, some of them empty.
DataSet ==
    [title : { Empty, <<"X">> }, subtitle : { Empty, <<"Y">> },
     content : { Empty, <<"C">> }]

WidgetRendered == [c \in { Empty, <<"C">> } |-> formatTranslatedContent(c)]

\* The argument of swapContent in switchLang's then callback.
SwapData(data) ==
    [title |-> data.title, subtitle |-> data.subtitle,
     content |-> WidgetRendered[data.content]]

\* switchLang's then callback followed by its finally callback.
ThenFinally(w, data) ==
    [swapContent(w, SwapData(data)) EXCEPT !.loading = FALSE]

\* switchLang's catch callback followed by its finally callback.
CatchFinally(w) ==
    [w EXCEPT !.console = @ \cup {"error"}, !.currentLang = "en", !.active = {"en"},
              !.loading = FALSE]

\* A request sent; fromSource: nothing was pending when it was sent (a history
\* of the run, no variable of the program).
NewRequest(w) == [fromSource |-> w.outstanding = << >> /\ w.timers = << >>]

\* switchLang whose fetchTranslation does not look into sessionCache.
switchLangNoSessionCache(w, lang) ==
    IF lang = w.currentLang THEN w
    ELSE LET w1 == [w EXCEPT !.currentLang = lang, !.active = {lang}]
         IN  IF lang = "en" THEN swapContent(w1, w1.original)
             ELSE [w1 EXCEPT !.loading = TRUE,
                             !.outstanding = Append(@, NewRequest(w))]

\* switchLang(lang), with fetchTranslation() up to its fetch.
switchLang(w, lang) ==
    IF lang = w.currentLang THEN w
    ELSE LET w1 == [w EXCEPT !.currentLang = lang, !.active = {lang}]
         IN  IF lang = "en" THEN swapContent(w1, w1.original)
             ELSE IF w1.sessionCache # NoEntry
             THEN ThenFinally([w1 EXCEPT !.loading = TRUE], w1.sessionCache)
             ELSE [w1 EXCEPT !.loading = TRUE,
                             !.outstanding = Append(@, NewRequest(w))]

Without(seq, i) == SubSeq(seq, 1, i - 1) \o SubSeq(seq, i + 1, Len(seq))

PageLens == { 0, MinTextLength, MinTextLength + 1 }

\* The page as the script starts: a title, maybe a subtitle element, a body.
InitWidget ==
    /\ ServerInit
    /\ ParserIdle
    /\ PromptIdle
    /\ RenderIdle
    /\ RoundIdle
    /\ pageLen \in PageLens
    /\ attempts = 0
    /\ wPc = "polling"
    /\ console = {}
    /\ subtitleEl \in BOOLEAN
    /\ original = NoFields
    /\ currentLang = "en"
    /\ active = {}
    /\ loading = FALSE
    /\ sessionCache = NoEntry
    /\ innerHTML \in [title : { Empty, <<"T">> },
                       subtitle : IF subtitleEl THEN { Empty, <<"S">> } ELSE { Empty },
                       content : { <<"O">> }]
    /\ fading = FALSE
    /\ timers = << >>
    /\ outstanding = << >>
    /\ clicks = 0

\* The host page renders more of the post while the widget polls.
PageRenders ==
    /\ wPc = "polling"
    /\ \E n \in PageLens : n > pageLen /\ Becomes([WState EXCEPT !.pageLen = n])

\* The timer of waitForContent fires.
PollTimerFires ==
    /\ wPc = "polling"
    /\ \E insertTarget \in BOOLEAN : Becomes(waitForContent(WState, insertTarget))

\* A click on one of the two buttons.
ClickButton ==
    /\ wPc = "mounted"
    /\ clicks < MaxClicks
    /\ \E lang \in {"en", "es"} :
         Becomes(switchLang([WState EXCEPT !.clicks = @ + 1], lang))

\* The fetch of one request resolves with an ok response and its JSON.
ResponseArrives ==
    \E i \in 1..Len(outstanding), data \in DataSet :
        Becomes(ThenFinally([WState EXCEPT !.outstanding = Without(@, i),
                                           !.sessionCache = data], data))

\* The fetch of one request rejects, or resolves with a response that is not ok.
RequestFails ==
    \E i \in 1..Len(outstanding) :
        Becomes(CatchFinally([WState EXCEPT !.outstanding = Without(@, i)]))

\* The oldest swapContent timer fires.
SwapTimerFires ==
    /\ timers # << >>
    /\ Becomes(SwapNow([WState EXCEPT !.timers = Tail(@)], Head(timers)))

NextWidget ==
    \/ PageRenders
    \/ PollTimerFires
    \/ ClickButton
    \/ ResponseArrives
    \/ RequestFails
    \/ SwapTimerFires

SpecWidget == InitWidget /\ [][NextWidget]_vars

\* Every fetch settles and every timer set by setTimeout fires.
SpecWidgetFair ==
    /\ SpecWidget
    /\ WF_vars(ResponseArrives \/ RequestFails)
    /\ WF_vars(SwapTimerFires)

----------------------------------------------------------------------------
(* The server: requests arrive and are served concurrently *)

Init == ServerInit /\ ParserIdle /\ PromptIdle /\ RenderIdle /\ RestIdle

Next ==
    \/ ReceiveTranslate
    \/ ReceivePreTranslate
    \/ ReceiveRead
    \/ FetchSettles
    \/ UpstreamReplies
    \/ UpstreamFails

Spec == Init /\ [][Next]_vars

----------------------------------------------------------------------------
(* Properties of the server *)

Fields(o) == [title |-> o.title, subtitle |-> o.subtitle, content |-> o.content]

Req(i) == reqs[i]

ReqIds == 1..Len(reqs)

\* The request called translatePost.
Entered(r) == r.hit \/ r.called

\* The request's upstream call failed.
Failed(r) == r.called /\ r.pc = "done" /\ ~r.replied

PreStatus(r) ==
    IF r.kind = "pre" /\ r.resp.status = 200 THEN r.resp.preStatus ELSE "none"

\* C1: two sequential /api/translate calls with identical inputs (the second
\* arriving after the first was answered successfully) return identical
\* title, subtitle and content, and the second makes no upstream call.
C1_SequentialCallsAgree ==
    \A j \in ReqIds : \A i \in Req(j).after :
        ( /\ Req(i).kind = "translate" /\ Req(j).kind = "translate"
          /\ Req(i).resp.status = 200
          /\ Req(i).title = Req(j).title
          /\ Req(i).subtitle = Req(j).subtitle
          /\ Req(i).content = Req(j).content )
        => /\ Req(j).pc = "done"
           /\ Req(j).resp.status = 200
           /\ Fields(Req(j).resp) = Fields(Req(i).resp)
           /\ ~Req(j).called

\* C2: once the cache holds a value for an id, no step changes the title,
\* subtitle or content it holds for that id.
C2_NeverOverwritten ==
    [][\A id \in Ids :
          Has(translationCache, id)
          => /\ Has(translationCache', id)
             /\ Fields(translationCache'[id]) = Fields(translationCache[id])]_vars

\* C3: for every id, at most one upstream translation call is in flight.
C3_SingleFlight == \A id \in Ids : InFlight(id) <= 1

\* A request whose upstream call failed has been answered with an error.
C4_FailedIsError ==
    \A i \in ReqIds : Failed(Req(i)) => Req(i).resp.status = 500

\* A call that follows a failed one for the same id, no translation of the id
\* having succeeded, misses the cache and calls upstream.
C4_RetryCallsUpstream ==
    \A j \in ReqIds : \A i \in Req(j).after :
        ( /\ Failed(Req(i))
          /\ Entered(Req(j))
          /\ ~\E k \in ReqIds : Req(k).postId = Req(j).postId /\ Req(k).replied /\ k # j )
        => Req(j).called /\ ~Req(j).hit

\* The step in which an upstream call fails leaves the cache as it is.
C4_FailureLeavesCache ==
    \A i \in ReqIds :
        (Req(i).pc = "upstream" /\ reqs'[i].pc = "done" /\ ~reqs'[i].replied)
        => translationCache' = translationCache

\* C4: if the upstream call fails, translatePost fails to its caller (the
\* request is answered with an error), the cache is left as it was, and a later
\* translatePost for the same id calls upstream again like a first attempt.
C4_UpstreamFailure ==
    /\ [](C4_FailedIsError /\ C4_RetryCallsUpstream)
    /\ [][C4_FailureLeavesCache]_vars

\* C4 witness: a call failed, and a later call for the same id called upstream.
C4_Witness ==
    \E j \in ReqIds : \E i \in Req(j).after :
        Failed(Req(i)) /\ Req(i).resp.status = 500 /\ Req(j).called
        /\ ~Has(translationCache, Req(j).postId)

\* C5: a request whose upstream reply text is empty is answered with an error,
\* and its id is given no cache entry.
C5_EmptyReplyFails ==
    \A i \in ReqIds :
        (Req(i).replied /\ Req(i).translatedText = Empty)
        => /\ Req(i).resp.status = 500
           /\ ~Has(translationCache, Req(i).postId)

\* A /api/translate request without postId, or with neither title nor content.
C6_Invalid(r) ==
    r.kind = "translate" /\ (r.postId = NoId \/ (r.title = Empty /\ r.content = Empty))

C6_RejectedBeforeUpstream ==
    \A i \in ReqIds :
        C6_Invalid(Req(i))
        => /\ Req(i).pc = "done" /\ Req(i).resp.status = 400
           /\ ~Req(i).called /\ ~Req(i).hit

C6_RejectLeavesCache ==
    (Len(reqs') = Len(reqs) + 1 /\ C6_Invalid(reqs'[Len(reqs')]))
    => translationCache' = translationCache

\* C6: a /api/translate request without postId, or with neither title nor
\* content, is answered 400 without an upstream call (and without reading the
\* cache), and the step that receives it leaves the cache as it is.
C6_TranslateValidation ==
    /\ []C6_RejectedBeforeUpstream
    /\ [][C6_RejectLeavesCache]_vars

\* C6 witness: both kinds of invalid request have been rejected, the second
\* while the cache held an entry.
C6_Witness ==
    /\ \E i \in ReqIds : Req(i).kind = "translate" /\ Req(i).postId = NoId
                          /\ Req(i).resp.status = 400
    /\ \E i \in ReqIds : /\ Req(i).kind = "translate" /\ Req(i).postId # NoId
                          /\ Req(i).title = Empty /\ Req(i).content = Empty
                          /\ Req(i).resp.status = 400
                          /\ Req(i).after # {}
                          /\ Has(translationCache, Req(i).postId)

\* C7: a /api/pre-translate request with a postId but neither title nor content
\* is answered 400 without an upstream call.
C7_PreWarmValidation ==
    \A i \in ReqIds :
        ( /\ Req(i).kind = "pre" /\ Req(i).postId # NoId
          /\ Req(i).title = Empty /\ Req(i).content = Empty )
        => /\ Req(i).pc = "done" /\ Req(i).resp.status = 400
           /\ ~Req(i).called

\* isCached(id) holds for every pre-warm request answered "cached" or
\* "already_cached"; "cached" follows the request's own upstream translation,
\* "already_cached" follows no upstream call.
C8_AnswersAreCached ==
    \A i \in ReqIds :
        /\ PreStatus(Req(i)) \in {"cached", "already_cached"} => isCached(Req(i).postId)
        /\ PreStatus(Req(i)) = "cached" => Req(i).called /\ Req(i).replied
        /\ PreStatus(Req(i)) = "already_cached" => ~Req(i).called

\* The step that receives a pre-warm request with a postId answers
\* "already_cached" exactly when the id is cached before the step, and never
\* answers "cached"; it leaves the cache as it is.
C8_AlreadyCachedIffCached ==
    (Len(reqs') = Len(reqs) + 1
       /\ reqs'[Len(reqs')].kind = "pre" /\ reqs'[Len(reqs')].postId # NoId)
    => /\ (PreStatus(reqs'[Len(reqs')]) = "already_cached"
            <=> Has(translationCache, reqs'[Len(reqs')].postId))
       /\ (PreStatus(reqs'[Len(reqs')]) = "cached" => FALSE)
       /\ translationCache' = translationCache

\* C8: a pre-warm request is answered "already_cached" exactly when its id is
\* cached as it arrives, and then makes no upstream call; it is answered "cached"
\* only after a translation for the id was stored; isCached(id) holds whenever
\* either answer has been sent.
C8_PreWarmStatus ==
    /\ []C8_AnswersAreCached
    /\ [][C8_AlreadyCachedIffCached]_vars

\* C8 witness: one pre-warm request was answered "cached", a later one
\* "already_cached".
C8_Witness ==
    \E i, j \in ReqIds :
        PreStatus(Req(i)) = "cached" /\ PreStatus(Req(j)) = "already_cached"
        /\ i \in Req(j).after

\* An id has a cache entry only if an upstream call for it has replied.
C9_EntryOnlyAfterSuccess ==
    \A id \in Ids :
        Has(translationCache, id)
        => \E i \in ReqIds : Req(i).postId = id /\ Req(i).called /\ Req(i).replied

\* No step removes a cache entry.
C9_NoStepRemoves ==
    \A id \in Ids : Has(translationCache, id) => Has(translationCache', id)

\* C9: the cache is monotonic: an id has an entry only after an upstream
\* translation for it has succeeded, and once isCached(id) is true it stays true
\* after every later step, failures included.
C9_CacheMonotonic ==
    /\ []C9_EntryOnlyAfterSuccess
    /\ [][C9_NoStepRemoves]_vars

\* C9 witness: an upstream call for an id failed after the id was cached, and
\* the entry is still there.
C9_Witness ==
    \E i, j \in ReqIds :
        /\ Req(i).postId = Req(j).postId /\ i # j
        /\ Req(i).replied /\ Req(i).pc = "done"
        /\ Failed(Req(j))
        /\ Has(translationCache, Req(j).postId)

\* C15: the value the cache holds for an id has the fields title, subtitle and
\* content and no other, whichever handlers have run, and so a translate
\* response has these three next to postId and cached, before and after a
\* reader-page request for the id.
C15_FieldsImmutable ==
    /\ \A id \in Ids :
          Has(translationCache, id)
          => DOMAIN translationCache[id] = {"title", "subtitle", "content"}
    /\ \A i \in ReqIds :
          (Req(i).kind = "translate" /\ Req(i).resp.status = 200)
          => DOMAIN Req(i).resp =
                {"status", "postId", "cached", "title", "subtitle", "content"}

----------------------------------------------------------------------------
(* Properties of the reply parser *)

Parsed == pResult # NoResult

\* The first index from k on of a line that is not blank, or Len(lines) + 1.
RECURSIVE FirstBody(_, _)
FirstBody(lines, k) ==
    IF k > Len(lines) \/ Trim(lines[k]) # Empty THEN k ELSE FirstBody(lines, k + 1)

\* The reply is `# T`, `### S`, then blank lines and body lines, T and S being
\* title and subtitle texts (not empty).
C10_Shape(lines) ==
    /\ Len(lines) >= 2
    /\ StartsWith(lines[1], HashSp) /\ Len(lines[1]) > 2
    /\ StartsWith(lines[2], Hash3Sp) /\ Len(lines[2]) > 4

\* C10: a reply `# T`, `### S`, optional blank lines, body lines parses to
\* title T, subtitle S and content the body lines joined by newlines and trimmed.
C10_HeaderReplyParsed ==
    (Parsed /\ C10_Shape(pLines))
    => /\ pResult.title = Drop(pLines[1], 2)
       /\ pResult.subtitle = Drop(pLines[2], 4)
       /\ pResult.content =
              Trim(Join(SubSeq(pLines, FirstBody(pLines, 3), Len(pLines)), <<NL>>))

\* C10 witness: `# T`, `### S`, a blank line and a body line have been parsed.
C10_Witness ==
    /\ Parsed
    /\ pLines = << <<"#", SP, "T">>, <<"#", "#", "#", SP, "S">>, Empty, <<"B">> >>
    /\ pResult = [title |-> <<"T">>, subtitle |-> <<"S">>, content |-> <<"B">>]

\* No line of the reply starts with `# ` or `### `.
NoHeaderLines(lines) ==
    \A k \in 1..Len(lines) :
        ~StartsWith(lines[k], HashSp) /\ ~StartsWith(lines[k], Hash3Sp)

\* C11: a reply with no header line is parsed to a result (the parse does not
\* fail) whose title and subtitle are the source title and subtitle and whose
\* content is the whole reply, trimmed.
C11_NoHeaderFallback ==
    /\ (pLine = Len(pLines) + 1 /\ ~Parsed) => ENABLED ParseFinish
    /\ (Parsed /\ NoHeaderLines(pLines))
       => /\ pResult.title = pSrc.title
          /\ pResult.subtitle = pSrc.subtitle
          /\ pResult.content = Trim(pText)

\* C11 witness: a reply of two body lines around a blank one, led by a blank
\* line, has been parsed with a source title and subtitle.
C11_Witness ==
    /\ Parsed
    /\ pLines = << Empty, <<"B">>, Empty, <<"B">> >>
    /\ pSrc = [title |-> <<"t">>, subtitle |-> <<"s">>]
    /\ pResult = [title |-> <<"t">>, subtitle |-> <<"s">>,
                  content |-> <<"B", NL, NL, "B">>]

\* C12: once a body line has been appended, each further line of the reply is
\* appended as it is to the body, in order, and the captured title and subtitle
\* stay as they are.
C12_BodySticky ==
    [][(pLine' = pLine + 1 /\ Len(pScan.contentLines) > 0)
       => pScan' = [pScan EXCEPT !.contentLines = Append(@, pLines[pLine])]]_vars

\* C12 witness: after a first body line, a `# ` line, a blank line and a `### `
\* line have all gone to the body, and the result has the source title.
C12_Witness ==
    /\ Parsed
    /\ pLines = << <<"B">>, <<"#", SP, "T">>, Empty, <<"#", "#", "#", SP, "S">> >>
    /\ pScan.contentLines = pLines
    /\ pResult.title = pSrc.title
    /\ pResult.subtitle = pSrc.subtitle

\* The lines among the first n of the reply that the loop takes in a branch.
TakenIn(branch, n) ==
    { k \in 1..n :
        ScanBranch(ScanLines(ScanInit, SubSeq(pLines, 1, k - 1)), pLines[k]) = branch }

\* C13: among the lines the loop has gone through, at most one was captured as
\* the title and at most one as the subtitle.
C13_OneCaptureEach ==
    pLine >= 1
    => /\ Cardinality(TakenIn("title", pLine - 1)) <= 1
       /\ Cardinality(TakenIn("subtitle", pLine - 1)) <= 1

----------------------------------------------------------------------------
(* Properties of the prompt assembly *)

BlankLine == <<NL, NL>>

C14_TitleLine == IF tbInput.title = Empty THEN Empty ELSE HashSp \o tbInput.title

C14_SubtitleLine ==
    IF tbInput.subtitle = Empty THEN Empty ELSE Hash3Sp \o tbInput.subtitle

\* C14: the text sent upstream is the `# title` line, the `### subtitle` line
\* and the body, in this order, a blank line between each two that are there;
\* the title line is left out exactly when the title is empty, the subtitle
\* line exactly when the subtitle is empty.
C14_PromptAssembly ==
    textToTranslate # NoResult
    => textToTranslate.text =
          C14_TitleLine
          \o (IF tbInput.title # Empty
                 /\ (tbInput.subtitle # Empty \/ tbInput.content # Empty)
              THEN BlankLine ELSE Empty)
          \o C14_SubtitleLine
          \o (IF tbInput.subtitle # Empty /\ tbInput.content # Empty
              THEN BlankLine ELSE Empty)
          \o tbInput.content

\* C14 witness: a text block was built from a title, no subtitle and a body.
C14_Witness ==
    /\ tbInput = [title |-> <<"t">>, subtitle |-> Empty, content |-> <<"b">>]
    /\ textToTranslate = [text |-> <<"#", SP, "t", NL, NL, "b">>]

----------------------------------------------------------------------------
(* Properties of the renderers *)

HasMarker(text) ==
    Contains(text, <<"<", "p", ">">>) \/ Contains(text, <<"<", "d", "i", "v", ">">>)

\* C16: a renderer given a text that contains `<p>` or `<div>` returns the
\* text as it is.
C16_PassThrough ==
    \A k \in Renderers :
        (Rendered(k) /\ HasMarker(rText)) => rHtml[k] = rText

\* C16 witness: the server renderer and the widget renderer have returned a
\* text with bold markers and `<div>` in it, unchanged.
C16_Witness ==
    /\ rParts = << BoldA, <<NL, NL>>, <<"<", "d", "i", "v", ">">> >>
    /\ Rendered("server") /\ rHtml["server"] = rText
    /\ Rendered("widget") /\ rHtml["widget"] = rText

Tag(name) == <<"<">> \o name \o <<">">>

EndTag(name) == <<"<", "/">> \o name \o <<">">>

\* The one element a block that is not empty is rendered as.
C17_Element(block) ==
    IF StartsWith(block, Hash3Sp)
    THEN Tag(<<"h", "3">>) \o inlineFormat(Drop(block, 4)) \o EndTag(<<"h", "3">>)
    ELSE IF StartsWith(block, <<"#", "#", SP>>)
    THEN Tag(<<"h", "2">>) \o inlineFormat(Drop(block, 3)) \o EndTag(<<"h", "2">>)
    ELSE Tag(<<"p">>) \o BrLines(inlineFormat(block)) \o EndTag(<<"p">>)

C17_NotEmpty(block) == Trim(block) # Empty

\* The blocks of a text between runs of two or more newlines, the empty ones
\* discarded.
C17_Blocks(text) == SelectSeq(SplitParas(text), C17_NotEmpty)

\* C17: the server renderer, given a text without `<p>` and `<div>`, returns
\* one element for each block that is not empty (`<h3>` for a `### ` block,
\* `<h2>` for a `## ` block, else `<p>` with `<br>` for each newline), and
\* nothing for an empty block.
C17_BlocksRendered ==
    (Rendered("server") /\ ~HasMarker(rText))
    => rHtml["server"] =
          Join([k \in 1..Len(C17_Blocks(rText)) |->
                    C17_Element(Trim(C17_Blocks(rText)[k]))], <<NL>>)

\* The inline pieces and what each is rendered as.
C18_Inline == { <<"a">>, <<SP>>, BoldA, LinkLU }

C18_Piece(piece) ==
    IF piece = BoldA
    THEN Tag(<<"s", "t", "r", "o", "n", "g">>) \o <<"a">>
         \o EndTag(<<"s", "t", "r", "o", "n", "g">>)
    ELSE IF piece = LinkLU
    THEN <<"<", "a", SP, "h", "r", "e", "f", "=", "\"", "u", "\"", ">", "l">>
         \o EndTag(<<"a">>)
    ELSE piece

\* The pieces split into blocks at the blank-line pieces.
RECURSIVE C18_SplitBlocks(_, _, _)
C18_SplitBlocks(parts, cur, acc) ==
    IF parts = << >> THEN Append(acc, cur)
    ELSE IF Head(parts) = <<NL, NL>>
    THEN C18_SplitBlocks(Tail(parts), << >>, Append(acc, cur))
    ELSE C18_SplitBlocks(Tail(parts), Append(cur, Head(parts)), acc)

C18_Heading(block) == Head(block) \in { Hash3Sp, <<"#", "#", SP>> }

C18_Text(block) == IF C18_Heading(block) THEN Tail(block) ELSE block

\* A block of inline pieces, after a heading prefix or not, with no space at
\* either end.
C18_Simple(block) ==
    /\ block # << >>
    /\ C18_Text(block) # << >>
    /\ \A k \in 1..Len(C18_Text(block)) : C18_Text(block)[k] \in C18_Inline
    /\ C18_Text(block)[1] # <<SP>>
    /\ C18_Text(block)[Len(C18_Text(block))] # <<SP>>

C18_Wrap(block, html) ==
    IF Head(block) = Hash3Sp THEN Tag(<<"h", "3">>) \o html \o EndTag(<<"h", "3">>)
    ELSE IF Head(block) = <<"#", "#", SP>>
    THEN Tag(<<"h", "2">>) \o html \o EndTag(<<"h", "2">>)
    ELSE Tag(<<"p">>) \o html \o EndTag(<<"p">>)

C18_Block(block) ==
    C18_Wrap(block,
             Join([k \in 1..Len(C18_Text(block)) |-> C18_Piece(C18_Text(block)[k])],
                  Empty))

C18_Blocks == C18_SplitBlocks(rParts, << >>, << >>)

\* C18: in every block the server renderer turns `**a**` into
\* `<strong>a</strong>` and `[l](u)` into `<a href="u">l</a>` inside the
\* block's element, whether paragraph or heading.
C18_InlineFormatting ==
    (Rendered("server") /\ \A k \in 1..Len(C18_Blocks) : C18_Simple(C18_Blocks[k]))
    => rHtml["server"] =
          Join([k \in 1..Len(C18_Blocks) |-> C18_Block(C18_Blocks[k])], <<NL>>)

\* C18 witness: `**a** [l](u)` has been rendered by the server renderer.
C18_Witness ==
    /\ rParts = << BoldA, <<SP>>, LinkLU >>
    /\ Rendered("server")
    /\ rHtml["server"] =
          Tag(<<"p">>) \o C18_Piece(BoldA) \o <<SP>> \o C18_Piece(LinkLU)
          \o EndTag(<<"p">>)

\* The text has no star that stands alone, the marker of italic.
NoItalicMarker(text) == \A i \in 1..Len(text) : ~LoneStar(text, i)

\* C19: for a text without italic markers, each widget renderer returns what
\* the server renderer returns.
C19_RenderersAgree ==
    \A k \in {"widget", "widgetItalic"} :
        (Rendered("server") /\ Rendered(k) /\ NoItalicMarker(rText))
        => rHtml[k] = rHtml["server"]

\* Every piece of the text is one of these.
PiecesIn(set) == \A k \in 1..Len(rParts) : rParts[k] \in set

HasPiece(piece) == \E k \in 1..Len(rParts) : rParts[k] = piece

\* No `*a*` piece of the text is next to another one.
ItalicApart == \A k \in 1..(Len(rParts) - 1) : ~(rParts[k] = ItalicA /\ rParts[k + 1] = ItalicA)

\* The italic rule of renderer k: a text of plain pieces and `*a*` is rendered
\* with `<em>a</em>`; a text of plain pieces and `**a**` is rendered with
\* `<strong>` and without `<em>`.
C20_ItalicRule(k) ==
    Rendered(k)
    => /\ (HasPiece(ItalicA) /\ ItalicApart /\ PiecesIn({ <<"a">>, <<SP>>, ItalicA }))
          => Contains(rHtml[k], Tag(<<"e", "m">>) \o <<"a">> \o EndTag(<<"e", "m">>))
       /\ (HasPiece(BoldA) /\ PiecesIn({ <<"a">>, <<SP>>, BoldA }))
          => /\ Contains(rHtml[k], Tag(<<"s", "t", "r", "o", "n", "g">>))
             /\ ~Contains(rHtml[k], Tag(<<"e", "m">>))

\* C20: the widget renderer turns `*text*` into `<em>text</em>`, and renders a
\* text whose only markers are `**bold**` with `<strong>` and no `<em>`.
C20_WidgetItalic == C20_ItalicRule("widget")

\* The same of the widget that has the italic replace.
ItalicWidgetHasRule == C20_ItalicRule("widgetItalic")

----------------------------------------------------------------------------
(* Properties of the round trip from HTML to text and back *)

\* The post's HTML has an element with this tag, in a block or as a block.
HasElement(tag) ==
    \E b \in 1..Len(body_html) :
        \/ body_html[b].tag = tag
        \/ \E k \in 1..Len(body_html[b].kids) : body_html[b].kids[k].tag = tag

\* C21: the text extracted from a post's HTML, rendered again, has the bold
\* spans, the links and the heading levels of the post's HTML.
C21_RoundTripPreserves ==
    roundHtml # NoResult
    => /\ HasElement("strong")
          => Contains(roundHtml.html, Tag(<<"s", "t", "r", "o", "n", "g">>) \o <<"a">>
                                       \o EndTag(<<"s", "t", "r", "o", "n", "g">>))
       /\ HasElement("a")
          => Contains(roundHtml.html,
                      <<"<", "a", SP, "h", "r", "e", "f", "=", "\"", "u", "\"", ">", "l">>
                      \o EndTag(<<"a">>))
       /\ HasElement("h2") => Contains(roundHtml.html, Tag(<<"h", "2">>))
       /\ HasElement("h3") => Contains(roundHtml.html, Tag(<<"h", "3">>))

----------------------------------------------------------------------------
(* Properties of the widget *)

Mounted == wPc = "mounted"

\* waitForContent has run at most maxAttempts times; after a time-out it has
\* run maxAttempts times, the diagnostic is out and there is no toggle.
C22_Bounded ==
    /\ attempts <= maxAttempts
    /\ wPc = "timedout"
       => /\ attempts = maxAttempts
          /\ "Timed out waiting for post content." \in console
          /\ active = {}

\* waitForContent runs only while the widget polls; the widget is initialized
\* only by a run that finds more than the minimum of text; after a time-out nothing
\* of the widget changes.
C22_Steps ==
    /\ attempts' # attempts => (wPc = "polling" /\ attempts' = attempts + 1)
    /\ (~Mounted /\ Mounted') => (attempts' = attempts + 1 /\ pageLen > MinTextLength)
    /\ wPc = "timedout" => UNCHANGED widgetVars

\* C22: discovery is a bounded retry: at most maxAttempts attempts; the widget
\* is initialized only after an attempt that finds the content with more than
\* the minimum text length; when all attempts fail, polling stops, no toggle is
\* mounted and a diagnostic is emitted.
C22_BoundedDiscovery == []C22_Bounded /\ [][C22_Steps]_vars

\* C22 witness: the last of maxAttempts attempts has failed.
C22_Witness ==
    /\ wPc = "timedout"
    /\ attempts = maxAttempts
    /\ pageLen = MinTextLength
    /\ console = {"Timed out waiting for post content."}

\* The step is a click; the settling of a request; the firing of a swap timer.
ClickStep == clicks' = clicks + 1

SettleStep == Len(outstanding') = Len(outstanding) - 1

TimerStep == Len(timers') = Len(timers) - 1

\* C23: at most one translate request is outstanding.
C23_OneOutstanding == Len(outstanding) <= 1

\* C24: while a translate request is outstanding and the toggle is loading, a
\* click changes neither the current language, the active button nor the
\* content, sets no swap of the content going and sends no request.
C24_ClickWhileLoading ==
    [][(loading /\ outstanding # << >> /\ ClickStep)
       => UNCHANGED <<currentLang, active, innerHTML, timers, outstanding>>]_vars

\* C25: a response that arrives when the current language is the source
\* language again sets no swap of the content going.
C25_StaleNotRendered ==
    [][(SettleStep /\ currentLang = "en") => timers' = timers]_vars

\* The step is the failing of a request that was sent from Source.
FailStepFromSource ==
    /\ SettleStep
    /\ timers' = timers
    /\ \E i \in 1..Len(outstanding) :
          outstanding[i].fromSource /\ outstanding' = Without(outstanding, i)

\* C26: when a translate request sent from Source fails, the source language
\* is current and the source button the active one, no innerHTML has changed
\* since the page was captured, the session cache has no entry, and a click on
\* the other button would send a new request.
C26_FailureReverts ==
    [][FailStepFromSource
       => /\ currentLang' = "en"
          /\ active' = {"en"}
          /\ innerHTML' = original
          /\ sessionCache' = NoEntry
          /\ switchLang(WState, "es").outstanding' # outstanding']_vars

\* C26 for a request during which no other request was sent.
FailureRevertsAlone ==
    [][(FailStepFromSource /\ Len(outstanding) = 1 /\ sessionCache = NoEntry)
       => /\ currentLang' = "en"
          /\ active' = {"en"}
          /\ innerHTML' = original
          /\ sessionCache' = NoEntry
          /\ switchLang(WState, "es").outstanding' # outstanding']_vars

\* The step is the arrival of the response to a request.
ResponseStep == SettleStep /\ Len(timers') = Len(timers) + 1

\* The step is a switch to the translated language.
SwitchToTranslated == ClickStep /\ currentLang = "en" /\ currentLang' = "es"

C27_Steps ==
    /\ ResponseStep
       => /\ sessionCache' # NoEntry
          /\ timers'[Len(timers')] = SwapData(sessionCache')
    /\ sessionCache # NoEntry => sessionCache' # NoEntry
    /\ (SwitchToTranslated /\ sessionCache # NoEntry)
       => /\ outstanding' = outstanding
          /\ sessionCache' = sessionCache
          /\ timers' = Append(timers, SwapData(sessionCache))

\* C27: after the response to a translate request the session cache holds the
\* response's fields and keeps holding fields; a later switch to the translated
\* language sends no request and sets the swap to the cached fields going.
C27_SessionCacheServes == [][C27_Steps]_vars

\* C27 witness: the translation is on the page, the switch back to the source
\* language is fading, and a second switch to the translated language has been
\* served from the session cache, no request outstanding.
C27_Witness ==
    /\ clicks = 3
    /\ currentLang = "es"
    /\ sessionCache = [title |-> <<"X">>, subtitle |-> <<"Y">>, content |-> <<"C">>]
    /\ subtitleEl
    /\ innerHTML = SwapData(sessionCache)
    /\ outstanding = << >>
    /\ ~loading
    /\ timers = << original, SwapData(sessionCache) >>

\* C28: a switch from the translated language back to the source language
\* sends no request, and when its fade delay has elapsed the title, the
\* subtitle and the body hold the original HTML captured by init.
C28_BackToSource ==
    [][/\ (ClickStep /\ currentLang = "es" /\ currentLang' = "en")
          => outstanding' = outstanding
       /\ (TimerStep /\ Head(timers) = original)
          => innerHTML' = original]_vars

\* C29: a swap timer replaces innerHTML only while the elements carry
\* "fading", and "fading" is removed only by a swap timer, after it has
\* replaced innerHTML.
C29_FadeOrder ==
    [][/\ TimerStep => fading
       /\ (fading /\ ~fading') => TimerStep]_vars

\* C30: the toggle carries "loading" whenever a translate request is
\* outstanding.
C30_LoadingWhileOutstanding == outstanding # << >> => loading

\* No request is outstanding and no swap timer is pending.
Quiescent == Mounted /\ outstanding = << >> /\ timers = << >>

\* The page with the translated fields swapped into the captured original.
TranslatedPage == SwapNow([WState EXCEPT !.innerHTML = original],
                          SwapData(sessionCache)).innerHTML

\* C31: with no request outstanding and no swap timer pending, the title, the
\* subtitle and the body hold the original fields when the source button is
\* the active one, and the translated fields when the translated button is.
C31_ToggleAgrees ==
    Quiescent
    => /\ active = {"en"} => innerHTML = original
       /\ active = {"es"} => (sessionCache # NoEntry /\ innerHTML = TranslatedPage)

----------------------------------------------------------------------------
(* Further properties of the server *)

\* C32: in a successful /api/translate response, cached is true exactly when
\* the fields came from an entry the cache held when the request arrived, the
\* request making no upstream call.
C32_CachedFlag ==
    \A i \in ReqIds :
        (Req(i).kind = "translate" /\ Req(i).resp.status = 200)
        => (Req(i).resp.cached <=> (Req(i).hit /\ ~Req(i).called))

\* Request j arrived after the translate request i for the same postId was
\* answered successfully, with other fields than i, and called translatePost.
LaterWithOtherFields(i, j) ==
    /\ i \in Req(j).after
    /\ Req(i).kind = "translate" /\ Req(j).kind = "translate"
    /\ Req(i).resp.status = 200
    /\ Fields(Req(i)) # Fields(Req(j))
    /\ Entered(Req(j))

\* The later request finds the id's entry, whatever its fields.
KeyIsIdAlone ==
    \A j \in ReqIds : \A i \in ReqIds :
        LaterWithOtherFields(i, j) => (Req(j).hit /\ ~Req(j).called)

\* C33: after a successful translate for an id, a later translate for the id
\* with a different title, subtitle or content makes no upstream call and
\* returns the fields the first call returned.
C33_KeyedByIdAlone ==
    \A j \in ReqIds : \A i \in ReqIds :
        LaterWithOtherFields(i, j)
        => /\ ~Req(j).called
           /\ Req(j).resp.status = 200
           /\ Fields(Req(j).resp) = Fields(Req(i).resp)

----------------------------------------------------------------------------
(* Rendering what was rendered *)

\* C34: the server renderer given its own output returns it unchanged.
C34_RenderIdempotent ==
    Rendered("server")
    => formatContentToHtml(rHtml["server"]) = rHtml["server"]

----------------------------------------------------------------------------
(* Further properties of the widget *)

\* C35: when no swap timer is pending, no content element carries "fading".
C35_NeverStaysFaded == timers = << >> => ~fading

\* C35 witness: after a switch to the translated language and a switch back,
\* the swap to the original and then the swap to a late translation have both
\* run, and the elements carry no "fading".
C35_Witness ==
    /\ Mounted
    /\ currentLang = "en"
    /\ "error" \notin console
    /\ original.title # Empty
    /\ sessionCache # NoEntry
    /\ innerHTML = SwapData([title |-> <<"X">>, subtitle |-> Empty, content |-> <<"C">>])
    /\ timers = << >>
    /\ outstanding = << >>
    /\ ~fading

\* The step is the failing of a request.
FailStep == SettleStep /\ timers' = timers

\* A toggle that is loading stops loading.
LeavesLoading == loading ~> ~loading

\* The settling of a request removes "loading".
SettlingRemovesLoading == [][SettleStep => ~loading']_vars

\* After a response the translated language is current and its button the
\* active one; after a failure the source language and its button are.
C36_Steps ==
    /\ SettleStep => ~loading'
    /\ ResponseStep => (currentLang' = "es" /\ active' = {"es"})
    /\ FailStep => (currentLang' = "en" /\ active' = {"en"})

\* C36: every request settling, a toggle that is loading stops loading: the
\* settling of a request removes "loading" and leaves the translated language
\* current after a response, the source language after a failure.
C36_LeavesLoading == LeavesLoading /\ [][C36_Steps]_vars

====
